---- MODULE Spec2Model ----
(***************************************************************************)
(* Model of the python-mastery scripts:                                    *)
(*   - memory_use_by_datastructure.py : six record builders, read_rides,   *)
(*     measure_memory run in six worker processes, the dispatcher loop of  *)
(*     __main__ and the sorted report;                                     *)
(*   - read_bus_rides.py : the same builders and read_rides;               *)
(*   - pcost.py : calc_cost and portfolio_cost.                            *)
(***************************************************************************)
EXTENDS Integers, Sequences, FiniteSets, TLC

VARIABLES
    \* the memory harness (memory_use_by_datastructure.py)
    file,       \* the file at "Data/ctabus.csv"
    pc,         \* position of the main process in __main__
    procs,      \* procs: the builders whose Process was started, in start order
    proc,       \* loop variable of "for proc in procs"
    pstate,     \* per builder: state of its Process ("initial", "started", "exited")
    exc,        \* per builder: the exception that ended its worker ("none" if none)
    traced,     \* per builder: (current, peak) tracemalloc reports in its worker
    que,        \* the multiprocessing Queue shared by all workers
    results,    \* results: the tuples the main process took from the queue
    printed,    \* the report lines written to standard output
    \* one call of read_rides
    inFile,     \* the file at `filename`
    inFunc,     \* the builder passed as `func`
    ingested,   \* what the call returned or raised ("pending" before it)
    \* one call of portfolio_cost (pcost.py)
    portfolio,  \* the file at `filename`: its lines, as readlines() gives them
    cpc,        \* position in portfolio_cost / calc_cost
    lineno,     \* lines of the file calc_cost has gone through
    cost,       \* the local `cost` of calc_cost
    total,      \* the local `cost` of portfolio_cost
    symbol,     \* the locals bound by the unpacking assignment, Unbound before
    shares,
    price,
    stdout,     \* what pcost.py printed, one entry per print call
    cexc,       \* the exception that left calc_cost ("none" if none)
    returned    \* the value portfolio_cost returned (NotReturned before)

harnessVars == <<file, pc, procs, proc, pstate, exc, traced, que, results, printed>>

ingestVars == <<inFile, inFunc, ingested>>

costVars ==
    <<portfolio, cpc, lineno, cost, total, symbol, shares, price, stdout, cexc, returned>>

vars == <<harnessVars, ingestVars, costVars>>

----------------------------------------------------------------------------
(* Bounds of the model *)

\* most data rows of the file the harness reads
MaxRows == 2

\* most data rows, and most fields of a row, of the file one read_rides call reads
MaxIngestRows == 2

MaxFields == 4

\* most lines of a portfolio file
MaxLines == 3

----------------------------------------------------------------------------
(* Record builders *)

\* field names, in the order of NamedtupleRow / DataclassRow / __slots__
FieldNames == <<"route", "date", "daytype", "rides">>

\* the list `functions` of __main__
functions ==
    <<"build_dictionary", "build_namedtuple", "build_tuple",
      "build_class", "build_slots", "build_dataclass">>

Builders == {functions[i] : i \in 1..Len(functions)}

\* raised by row[i] when the row is too short
IndexError == [kind |-> "IndexError"]

\* row[i] of Python (0-based) on a list
Item(row, i) == row[i + 1]

\* every builder reads row[0] .. row[3]; the first missing index raises
HasIndex(row, i) == i + 1 <= Len(row)

\* mutant of build_tuple: the whole row made a tuple, no field read by index
build_tuple_whole(row) == [kind |-> "tuple", items |-> row]

build_tuple(row) ==
    IF \E i \in 0..3 : ~HasIndex(row, i) THEN IndexError
    ELSE [kind |-> "tuple",
          items |-> <<Item(row, 0), Item(row, 1), Item(row, 2), Item(row, 3)>>]

build_dictionary(row) ==
    IF \E i \in 0..3 : ~HasIndex(row, i) THEN IndexError
    ELSE [kind |-> "dict",
          attrs |-> [route |-> Item(row, 0), date |-> Item(row, 1),
                     daytype |-> Item(row, 2), rides |-> Item(row, 3)]]

\* NamedtupleRow(a, b, c, d): positional arguments in the order of its field list
NamedtupleRow(a, b, c, d) ==
    [kind |-> "namedtuple", items |-> <<a, b, c, d>>]

build_namedtuple(row) ==
    IF \E i \in 0..3 : ~HasIndex(row, i) THEN IndexError
    ELSE NamedtupleRow(Item(row, 0), Item(row, 1), Item(row, 2), Item(row, 3))

\* Row.__init__
Row(row) ==
    IF \E i \in 0..3 : ~HasIndex(row, i) THEN IndexError
    ELSE [kind |-> "class",
          attrs |-> [route |-> Item(row, 0), date |-> Item(row, 1),
                     daytype |-> Item(row, 2), rides |-> Item(row, 3)]]

build_class(row) == Row(row)

\* SlotsRow.__init__
SlotsRow(row) ==
    IF \E i \in 0..3 : ~HasIndex(row, i) THEN IndexError
    ELSE [kind |-> "slots",
          attrs |-> [route |-> Item(row, 0), date |-> Item(row, 1),
                     daytype |-> Item(row, 2), rides |-> Item(row, 3)]]

build_slots(row) == SlotsRow(row)

\* mutant of DataclassRow: date and daytype declared in the other order
DataclassRowSwapped(a, b, c, d) ==
    [kind |-> "dataclass",
     attrs |-> [route |-> a, daytype |-> b, date |-> c, rides |-> d]]

\* the generated DataclassRow.__init__(route, date, daytype, rides)
DataclassRow(a, b, c, d) ==
    [kind |-> "dataclass",
     attrs |-> [route |-> a, date |-> b, daytype |-> c, rides |-> d]]

build_dataclass(row) ==
    IF \E i \in 0..3 : ~HasIndex(row, i) THEN IndexError
    ELSE DataclassRow(Item(row, 0), Item(row, 1), Item(row, 2), Item(row, 3))

\* func(row) for func one of `functions`
Build(func, row) ==
    CASE func = "build_dictionary" -> build_dictionary(row)
      [] func = "build_namedtuple" -> build_namedtuple(row)
      [] func = "build_tuple"      -> build_tuple(row)
      [] func = "build_class"      -> build_class(row)
      [] func = "build_slots"      -> build_slots(row)
      [] func = "build_dataclass"  -> build_dataclass(row)

\* position of a field name in FieldNames
FieldIndex(name) == CHOOSE i \in 1..Len(FieldNames) : FieldNames[i] = name

\* reading a field back: by position for the tuple, by name through the field
\* list for the namedtuple, by key or attribute for the others
GetField(record, name) ==
    IF record.kind \in {"tuple", "namedtuple"}
    THEN record.items[FieldIndex(name)]
    ELSE record.attrs[name]

----------------------------------------------------------------------------
(* Ingestion loop *)

\* the file at `filename`: whether open() finds it, and the rows csv.reader
\* yields from it (the header row first)
NoFile == [exists |-> FALSE, rows |-> <<>>]

FileOf(rows) == [exists |-> TRUE, rows |-> rows]

RECURSIVE BuildAll(_, _, _)
\* the for loop of read_rides: func(row) appended to records row by row; the
\* first exception of func leaves the loop
BuildAll(func, rows, records) ==
    IF rows = <<>> THEN [kind |-> "list", records |-> records]
    ELSE LET record == Build(func, Head(rows))
         IN  IF record.kind = "IndexError" THEN IndexError
             ELSE BuildAll(func, Tail(rows), Append(records, record))

\* mutant of read_rides: the header row is not discarded
read_rides_keeps_header(f, func) ==
    IF ~f.exists THEN [kind |-> "FileNotFoundError"]
    ELSE BuildAll(func, f.rows, <<>>)

\* read_rides(filename, func), f the file at filename
read_rides(f, func) ==
    IF ~f.exists THEN [kind |-> "FileNotFoundError"]
    ELSE IF f.rows = <<>> THEN [kind |-> "StopIteration"]
    ELSE BuildAll(func, Tail(f.rows), <<>>)

----------------------------------------------------------------------------
(* Memory probe *)

MEGA_BYTE_SIZE == 1048576

\* round(nbytes / MEGA_BYTE_SIZE, 1), in tenths of a megabyte.  The quotient
\* is exact in binary floating point, and round() rounds an exact half to
\* the even neighbour.
RoundMB(nbytes) ==
    LET q == (nbytes * 10) \div MEGA_BYTE_SIZE
        r == (nbytes * 10) % MEGA_BYTE_SIZE
    IN  IF 2 * r < MEGA_BYTE_SIZE THEN q
        ELSE IF 2 * r > MEGA_BYTE_SIZE THEN q + 1
        ELSE IF q % 2 = 0 THEN q ELSE q + 1

\* mutant of CeilDiv: current // n
FloorDiv(current, n) == current \div n

\* math.ceil(current / n) for n > 0; the true division is exact enough for
\* the ceiling below 2^53 bytes
CeilDiv(current, n) ==
    IF current % n = 0 THEN current \div n ELSE (current \div n) + 1

\* the tuple measure_memory puts on the queue
ResultTuple(func, current, peak, records) ==
    [func |-> func,
     current |-> RoundMB(current),
     peak |-> RoundMB(peak),
     rows |-> Len(records),
     bytes_per_object |-> CeilDiv(current, Len(records))]

\* queue.put(item, block=False) on the unbounded Queue
QueuePut(q, item) == Append(q, item)

\* mutant of QueueRest: the item read stays in the queue
QueueRestPeek(q) == q

\* que.get(): the oldest item, which leaves the queue
QueueFront(q) == Head(q)

QueueRest(q) == Tail(q)

----------------------------------------------------------------------------
(* Inputs of the harness *)

Header == <<"route", "date", "daytype", "rides">>

\* a well-formed data row and one with only three fields
DataRows == {<<"3", "01/01/2001", "U", "7354">>, <<"4", "01/01/2001", "U">>}

SeqsUpTo(S, n) == UNION {[1..m -> S] : m \in 0..n}

\* the absent file, the empty file, and a header with up to MaxRows data rows
Files ==
    {NoFile, FileOf(<<>>)}
        \cup {FileOf(<<Header>> \o rows) : rows \in SeqsUpTo(DataRows, MaxRows)}

\* (current, peak) pairs tracemalloc may report, in bytes
TracedSamples == {<<100, 300000>>, <<201, 52429>>, <<262144, 262145>>}

\* place of each representation in the ranking the module docstring reports,
\* from the least memory to the most
MemoryRank(func) ==
    CASE func = "build_slots"      -> 1
      [] func = "build_tuple"      -> 2
      [] func = "build_namedtuple" -> 3
      [] func = "build_dataclass"  -> 4
      [] func = "build_class"      -> 5
      [] func = "build_dictionary" -> 6

\* what tracemalloc reports in each worker: any samples that agree with the
\* reported ranking (ties allowed)
TracedProfiles ==
    {t \in [Builders -> TracedSamples] :
        \A f, g \in Builders : MemoryRank(f) <= MemoryRank(g) => t[f][1] <= t[g][1]}

----------------------------------------------------------------------------
(* Report *)

\* func.__name__[6:].upper()
Label(func) ==
    CASE func = "build_dictionary" -> "DICTIONARY"
      [] func = "build_namedtuple" -> "NAMEDTUPLE"
      [] func = "build_tuple"      -> "TUPLE"
      [] func = "build_class"      -> "CLASS"
      [] func = "build_slots"      -> "SLOTS"
      [] func = "build_dataclass"  -> "DATACLASS"

\* the fields the f-string of the report shows for one result
ReportLine(result) ==
    [label |-> Label(result.func),
     memory |-> result.current,
     peak |-> result.peak,
     instances |-> result.rows,
     object_size |-> result.bytes_per_object]

\* mutant of SortKey: key=lambda x: x[2]
SortKeyPeak(result) == result.peak

\* key=lambda x: x[1]
SortKey(result) == result.current

RECURSIVE Insert(_, _)
\* x placed after every element whose key is not larger: keeps equal keys in
\* their order of arrival
Insert(sorted, x) ==
    IF sorted = <<>> THEN <<x>>
    ELSE IF SortKey(Head(sorted)) <= SortKey(x)
         THEN <<Head(sorted)>> \o Insert(Tail(sorted), x)
         ELSE <<x>> \o sorted

RECURSIVE SortedFrom(_, _)
SortedFrom(rs, acc) ==
    IF rs = <<>> THEN acc ELSE SortedFrom(Tail(rs), Insert(acc, Head(rs)))

\* sorted(results, key=lambda x: x[1]): stable, ascending
Sorted(rs) == SortedFrom(rs, <<>>)

----------------------------------------------------------------------------
(* The harness: __main__ and the six worker processes *)

\* mutant of LoopProc: for proc in reversed(procs)
LoopProcReversed(ps, i) == ps[Len(ps) + 1 - i]

\* for proc in procs: the proc of iteration i
LoopProc(ps, i) == ps[i]

HarnessInit ==
    /\ file \in Files
    /\ pc = "start"
    /\ procs = <<>>
    /\ proc = "none"
    /\ pstate = [b \in Builders |-> "initial"]
    /\ exc = [b \in Builders |-> "none"]
    /\ traced \in TracedProfiles
    /\ que = <<>>
    /\ results = <<>>
    /\ printed = <<>>

\* one iteration of the first loop: Process(...), procs.append(proc), proc.start()
StartProc ==
    /\ pc = "start"
    /\ Len(procs) < Len(functions)
    /\ LET func == functions[Len(procs) + 1]
       IN  /\ procs' = Append(procs, func)
           /\ pstate' = [pstate EXCEPT ![func] = "started"]
    /\ pc' = IF Len(procs') = Len(functions) THEN "get" ELSE "start"
    /\ UNCHANGED <<file, proc, exc, traced, que, results, printed,
                 ingestVars, costVars>>

\* the worker of func dies in read_rides: nothing reaches the queue
WorkerReadFails(func) ==
    /\ pstate[func] = "started"
    /\ read_rides(file, func).kind # "list"
    /\ pstate' = [pstate EXCEPT ![func] = "exited"]
    /\ exc' = [exc EXCEPT ![func] = read_rides(file, func).kind]
    /\ UNCHANGED <<file, pc, procs, proc, traced, que, results, printed,
                 ingestVars, costVars>>

\* the worker of func reads no record: current / len(rows) divides by zero
\* while the argument of queue.put is built
WorkerDividesByZero(func) ==
    /\ pstate[func] = "started"
    /\ read_rides(file, func).kind = "list"
    /\ Len(read_rides(file, func).records) = 0
    /\ pstate' = [pstate EXCEPT ![func] = "exited"]
    /\ exc' = [exc EXCEPT ![func] = "ZeroDivisionError"]
    /\ UNCHANGED <<file, pc, procs, proc, traced, que, results, printed,
                 ingestVars, costVars>>

\* the worker of func runs measure_memory to its end and exits
WorkerPuts(func) ==
    /\ pstate[func] = "started"
    /\ read_rides(file, func).kind = "list"
    /\ Len(read_rides(file, func).records) > 0
    /\ que' = QueuePut(que, ResultTuple(func, traced[func][1], traced[func][2],
                                        read_rides(file, func).records))
    /\ pstate' = [pstate EXCEPT ![func] = "exited"]
    /\ UNCHANGED <<file, pc, procs, proc, exc, traced, results, printed,
                 ingestVars, costVars>>

\* measure_memory(filename, func, queue) in the process started for func
measure_memory(func) ==
    \/ WorkerReadFails(func)
    \/ WorkerDividesByZero(func)
    \/ WorkerPuts(func)

\* result = que.get(); results.append(result): blocks while the queue is empty
GetResult ==
    /\ pc = "get"
    /\ que # <<>>
    /\ proc' = LoopProc(procs, Len(results) + 1)
    /\ results' = Append(results, QueueFront(que))
    /\ que' = QueueRest(que)
    /\ pc' = "join"
    /\ UNCHANGED <<file, procs, pstate, exc, traced, printed,
                 ingestVars, costVars>>

\* proc.join(): returns once the process of this iteration has exited
JoinProc ==
    /\ pc = "join"
    /\ pstate[proc] = "exited"
    /\ pc' = IF Len(results) = Len(procs) THEN "sort" ELSE "get"
    /\ UNCHANGED <<file, procs, proc, pstate, exc, traced, que, results, printed,
                 ingestVars, costVars>>

\* results = sorted(results, key=lambda x: x[1])
SortResults ==
    /\ pc = "sort"
    /\ results' = Sorted(results)
    /\ pc' = "print"
    /\ UNCHANGED <<file, procs, proc, pstate, exc, traced, que, printed,
                 ingestVars, costVars>>

\* one iteration of the print loop
PrintLine ==
    /\ pc = "print"
    /\ Len(printed) < Len(results)
    /\ printed' = Append(printed, ReportLine(results[Len(printed) + 1]))
    /\ pc' = IF Len(printed') = Len(results) THEN "done" ELSE "print"
    /\ UNCHANGED <<file, procs, proc, pstate, exc, traced, que, results,
                 ingestVars, costVars>>

\* the harness alone: nothing else runs
IngestIdle ==
    /\ inFile = NoFile
    /\ inFunc = "none"
    /\ ingested = [kind |-> "idle"]

----------------------------------------------------------------------------
(* One call of read_rides on an arbitrary small file *)

FieldValues == {"3", "U"}

\* rows of 0 .. MaxFields fields
IngestRows == SeqsUpTo(FieldValues, MaxFields)

IngestFiles ==
    {NoFile, FileOf(<<>>)}
        \cup {FileOf(<<Header>> \o rows) : rows \in SeqsUpTo(IngestRows, MaxIngestRows)}

IngestInit ==
    /\ inFile \in IngestFiles
    /\ inFunc \in Builders
    /\ ingested = [kind |-> "pending"]

\* records = read_rides(filename, func), or the exception it raises
CallReadRides ==
    /\ ingested.kind = "pending"
    /\ ingested' = read_rides(inFile, inFunc)
    /\ UNCHANGED <<inFile, inFunc,
                 harnessVars, costVars>>

----------------------------------------------------------------------------
(* pcost.py *)

\* a line is the sequence of its characters, the newline included

Delimiters == {" ", ","}

Whitespace == {" ", "\n"}

DigitChars == <<"0", "1", "2", "3", "4", "5", "6", "7", "8", "9">>

IsDigit(c) == \E i \in 1..Len(DigitChars) : DigitChars[i] = c

DigitValue(c) == (CHOOSE i \in 1..Len(DigitChars) : DigitChars[i] = c) - 1

RECURSIVE SplitFrom(_, _, _, _)
\* fields cut at every maximal run of delimiters; a run at either end leaves
\* an empty field there
SplitFrom(chars, fields, field, inRun) ==
    IF chars = <<>> THEN Append(fields, field)
    ELSE IF Head(chars) \in Delimiters
         THEN IF inRun THEN SplitFrom(Tail(chars), fields, field, TRUE)
              ELSE SplitFrom(Tail(chars), Append(fields, field), <<>>, TRUE)
         ELSE SplitFrom(Tail(chars), fields, Append(field, Head(chars)), FALSE)

\* re.split(r"[ ,]+", line)
Split(line) == SplitFrom(line, <<>>, <<>>, FALSE)

RECURSIVE LStrip(_)
LStrip(s) ==
    IF s # <<>> /\ Head(s) \in Whitespace THEN LStrip(Tail(s)) ELSE s

RECURSIVE RStrip(_)
RStrip(s) ==
    IF s # <<>> /\ s[Len(s)] \in Whitespace THEN RStrip(SubSeq(s, 1, Len(s) - 1))
    ELSE s

\* int() and float() ignore surrounding whitespace
Strip(s) == RStrip(LStrip(s))

\* the text is a decimal numeral: the only numerals the lines of this model
\* hold are unsigned digit strings, which int() and float() both accept
IsNumeral(s) == Strip(s) # <<>> /\ \A i \in 1..Len(Strip(s)) : IsDigit(Strip(s)[i])

RECURSIVE DigitsValue(_, _)
DigitsValue(s, acc) ==
    IF s = <<>> THEN acc ELSE DigitsValue(Tail(s), 10 * acc + DigitValue(Head(s)))

\* int(s) / float(s) where they do not raise ValueError
NumeralValue(s) == DigitsValue(Strip(s), 0)

Unbound == <<"<unbound>">>

NotReturned == -1

\* lines a portfolio file may hold
PortfolioLines ==
    {<<"A", "A", " ", "2", " ", "3", "\n">>,           \* AA 2 3
     <<"T", ",", "1", "0", ",", "4", "\n">>,           \* T,10,4
     <<"\n">>,                                         \* blank line
     <<"G", "E", " ", "5", "\n">>,                     \* two fields
     <<"C", " ", "N", "A", " ", "7", "\n">>,           \* shares not a number
     <<"F", " ", "2", " ", "3", " ", "\n">>}           \* trailing delimiter

NoPortfolio == [exists |-> FALSE, lines |-> <<>>]

Portfolios ==
    {NoPortfolio}
        \cup {[exists |-> TRUE, lines |-> ls] : ls \in SeqsUpTo(PortfolioLines, MaxLines)}

CostIdle ==
    /\ portfolio = NoPortfolio
    /\ cpc = "idle"
    /\ lineno = 0
    /\ cost = 0
    /\ total = 0
    /\ symbol = Unbound
    /\ shares = Unbound
    /\ price = Unbound
    /\ stdout = <<>>
    /\ cexc = "none"
    /\ returned = NotReturned

CostInit ==
    /\ portfolio \in Portfolios
    /\ cpc = "open"
    /\ lineno = 0
    /\ cost = 0
    /\ total = 0
    /\ symbol = Unbound
    /\ shares = Unbound
    /\ price = Unbound
    /\ stdout = <<>>
    /\ cexc = "none"
    /\ returned = NotReturned

\* portfolio_cost up to the call of calc_cost: open(filename), or the
\* FileNotFoundError handler
OpenPortfolio ==
    /\ cpc = "open"
    /\ IF portfolio.exists
       THEN /\ cpc' = "loop"
            /\ stdout' = stdout
       ELSE /\ cpc' = "finally"
            /\ stdout' = Append(stdout, [text |-> "not found"])
    /\ UNCHANGED <<portfolio, lineno, cost, total, symbol, shares, price, cexc, returned,
                 harnessVars, ingestVars>>

\* the except ValueError handler of calc_cost, the locals being sym, shr, prc:
\* its f-string reads the three locals, which raises UnboundLocalError when
\* the unpacking assignment never succeeded
HandleValueError(sym, shr, prc) ==
    IF sym = Unbound \/ shr = Unbound \/ prc = Unbound
    THEN /\ cexc' = "UnboundLocalError"
         /\ cpc' = "finally"
         /\ stdout' = stdout
    ELSE /\ cexc' = cexc
         /\ cpc' = cpc
         /\ stdout' = Append(stdout, [text |-> "unable", symbol |-> sym,
                                      shares |-> shr, price |-> prc])

\* one iteration of the loop of calc_cost
CalcLine ==
    /\ cpc = "loop"
    /\ lineno < Len(portfolio.lines)
    /\ lineno' = lineno + 1
    /\ LET fields == Split(portfolio.lines[lineno + 1])
       IN  IF Len(fields) # 3
           THEN \* the unpacking raises and binds nothing
                /\ UNCHANGED <<symbol, shares, price, cost>>
                /\ HandleValueError(symbol, shares, price)
           ELSE /\ symbol' = fields[1]
                /\ shares' = fields[2]
                /\ price' = fields[3]
                /\ IF IsNumeral(fields[2]) /\ IsNumeral(fields[3])
                   THEN /\ cost' = cost + NumeralValue(fields[2]) * NumeralValue(fields[3])
                        /\ UNCHANGED <<cexc, cpc, stdout>>
                   ELSE /\ cost' = cost
                        /\ HandleValueError(fields[1], fields[2], fields[3])
    /\ UNCHANGED <<portfolio, total, returned,
                 harnessVars, ingestVars>>

\* return cost, assigned to the cost of portfolio_cost
CalcReturn ==
    /\ cpc = "loop"
    /\ lineno = Len(portfolio.lines)
    /\ total' = cost
    /\ cpc' = "finally"
    /\ UNCHANGED <<portfolio, lineno, cost, symbol, shares, price, stdout, cexc, returned,
                 harnessVars, ingestVars>>

\* the finally clause of portfolio_cost: its return discards an exception in flight
Finally ==
    /\ cpc = "finally"
    /\ stdout' = Append(stdout, [text |-> "cost", cost |-> total])
    /\ returned' = total
    /\ cpc' = "done"
    /\ UNCHANGED <<portfolio, lineno, cost, total, symbol, shares, price, cexc,
                 harnessVars, ingestVars>>

----------------------------------------------------------------------------
(* Specifications *)

HarnessIdle ==
    /\ file = NoFile
    /\ pc = "idle"
    /\ procs = <<>>
    /\ proc = "none"
    /\ pstate = [b \in Builders |-> "initial"]
    /\ exc = [b \in Builders |-> "none"]
    /\ traced = [b \in Builders |-> <<0, 0>>]
    /\ que = <<>>
    /\ results = <<>>
    /\ printed = <<>>

\* the memory harness
Init == HarnessInit /\ IngestIdle /\ CostIdle

Next ==
    \/ StartProc
    \/ \E func \in Builders : measure_memory(func)
    \/ GetResult
    \/ JoinProc
    \/ SortResults
    \/ PrintLine

Spec == Init /\ [][Next]_vars

\* one call of read_rides
InitIngest == HarnessIdle /\ IngestInit /\ CostIdle

NextIngest == CallReadRides

SpecIngest == InitIngest /\ [][NextIngest]_vars

\* one call of portfolio_cost
InitCost == HarnessIdle /\ IngestIdle /\ CostInit

NextCost ==
    \/ OpenPortfolio
    \/ CalcLine
    \/ CalcReturn
    \/ Finally

SpecCost == InitCost /\ [][NextCost]_vars

----------------------------------------------------------------------------
(* Properties of the harness (Spec) *)

\* the results the worker of func has put on the queue, taken or not
Deposited(func) ==
    {i \in 1..Len(results) : results[i].func = func}
        \cup {Len(results) + i : i \in {j \in 1..Len(que) : que[j].func = func}}

AllDeposited ==
    {results[i] : i \in 1..Len(results)} \cup {que[i] : i \in 1..Len(que)}

\* C1: when workers die before they put a result, the main process is never
\* left waiting in que.get() on an empty queue that no worker will fill.
DispatcherNeverBlocksForever ==
    ~(/\ pc = "get"
      /\ que = <<>>
      /\ \A func \in Builders : pstate[func] = "exited")

\* C2: on a file that holds the header and no data row, a worker that has
\* run did not crash, and it deposited a result with 0 records and 0 bytes
\* per record.
ZeroRowsYieldZeroBytesPerRecord ==
    \A func \in Builders :
        (file.exists /\ Len(file.rows) = 1 /\ pstate[func] = "exited")
            => /\ exc[func] = "none"
               /\ \E r \in AllDeposited :
                     r.func = func /\ r.rows = 0 /\ r.bytes_per_object = 0

ReportCompleteOrAbsent ==
    /\ \A func \in Builders : Cardinality(Deposited(func)) <= 1
    /\ printed # <<>>
          => /\ Len(results) = Len(functions)
             /\ {results[i].func : i \in 1..Len(results)} = Builders
    /\ Len(printed) <= Len(functions)
    /\ \A i \in 1..Len(printed) : printed[i].label = Label(results[i].func)
    /\ pc = "done"
          => /\ Len(printed) = Len(functions)
             /\ {printed[i].label : i \in 1..Len(printed)}
                    = {Label(func) : func \in Builders}
             /\ \A i, j \in 1..Len(printed) :
                    i # j => printed[i].label # printed[j].label

ReportPrinted ==
    /\ pc = "done"
    /\ Len(printed) = 6
    /\ printed[1].label # "DICTIONARY"

\* C5 as stated: a result with more current bytes is never printed before a
\* result with fewer current bytes.
PrintedInOrderOfCurrentBytes ==
    \A i, j \in 1..Len(printed) :
        i < j => traced[results[i].func][1] <= traced[results[j].func][1]

\* C5, amended: the results are sorted by the current memory rounded to a
\* tenth of a megabyte, the value each line shows: that value never decreases
\* from one printed line to the next.
PrintedInOrderOfRoundedMemory ==
    /\ \A i \in 1..Len(printed) :
          printed[i].memory = RoundMB(traced[results[i].func][1])
    /\ \A i, j \in 1..Len(printed) : i < j => printed[i].memory <= printed[j].memory

\* a finished report with different memory values, in which a result of more
\* bytes stands before one of fewer bytes
ReportWithTie ==
    /\ pc = "done"
    /\ printed[1].memory < printed[Len(printed)].memory
    /\ \E i, j \in 1..Len(printed) :
          i < j /\ traced[results[i].func][1] > traced[results[j].func][1]

\* C6: in every deposited result with records, bytes_per_object is the least
\* integer b with b * rows >= current, current being the unrounded bytes
\* tracemalloc reported.
BytesPerRecordIsCeiling ==
    \A r \in AllDeposited :
        r.rows > 0
            => /\ r.bytes_per_object * r.rows >= traced[r.func][1]
               /\ (r.bytes_per_object - 1) * r.rows < traced[r.func][1]

\* a result whose current bytes are no multiple of its record count
ResultWithRemainder ==
    \E r \in AllDeposited : r.rows > 1 /\ traced[r.func][1] % r.rows # 0

\* data rows of the harness file that have fewer than 4 elements
ShortRows ==
    {i \in 2..Len(file.rows) : Len(file.rows[i]) < 4}

\* C9: every builder raises IndexError on a row of fewer than 4 elements and
\* builds nothing; a worker reading a file with such a row dies of it and
\* deposits no result.
ShortRowAbortsWorker ==
    (file.exists /\ ShortRows # {})
        => /\ \A i \in ShortRows, func \in Builders :
                 Build(func, file.rows[i]) = IndexError
           /\ \A func \in Builders :
                 /\ Deposited(func) = {}
                 /\ pstate[func] = "exited" => exc[func] = "IndexError"

\* every worker has died on a file whose second data row is short
WorkersDiedOfShortRow ==
    /\ file.exists
    /\ ShortRows = {3}
    /\ \A func \in Builders : exc[func] = "IndexError"

----------------------------------------------------------------------------
(* Properties of read_rides and the builders (SpecIngest) *)

\* C7: on a file with a header and n data rows that the builder accepts,
\* read_rides returns n records, the i-th being the builder applied to the
\* i-th data row; n does not depend on the builder.
ReadRidesKeepsRows ==
    (/\ ingested.kind # "pending"
     /\ inFile.exists
     /\ inFile.rows # <<>>
     /\ \A i \in 2..Len(inFile.rows) : Len(inFile.rows[i]) >= 4)
        => /\ ingested.kind = "list"
           /\ Len(ingested.records) = Len(inFile.rows) - 1
           /\ \A i \in 1..Len(ingested.records) :
                 ingested.records[i] = Build(inFunc, inFile.rows[i + 1])

\* two different rows were read
TwoRowsRead ==
    /\ ingested.kind = "list"
    /\ Len(ingested.records) = 2
    /\ inFile.rows[2] # inFile.rows[3]

\* C8: whatever the builder, the route, date, daytype and rides read back
\* from the record of a 4-element row are row[0], row[1], row[2], row[3].
BuildersReadBackTheRow ==
    ingested.kind = "list"
        => \A i \in 1..Len(ingested.records) :
              Len(inFile.rows[i + 1]) = 4
                 => /\ GetField(ingested.records[i], "route") = inFile.rows[i + 1][1]
                    /\ GetField(ingested.records[i], "date") = inFile.rows[i + 1][2]
                    /\ GetField(ingested.records[i], "daytype") = inFile.rows[i + 1][3]
                    /\ GetField(ingested.records[i], "rides") = inFile.rows[i + 1][4]

\* a dataclass record built from a row whose fields differ
DataclassRecordBuilt ==
    /\ ingested.kind = "list"
    /\ inFunc = "build_dataclass"
    /\ Len(ingested.records) >= 1
    /\ inFile.rows[2] = <<"3", "U", "3", "U">>

----------------------------------------------------------------------------
(* Properties of pcost.py (SpecCost) *)

\* the line splits into three fields whose second and third are numerals
WellFormed(line) ==
    /\ Len(Split(line)) = 3
    /\ IsNumeral(Split(line)[2])
    /\ IsNumeral(Split(line)[3])

RECURSIVE WellFormedTotal(_)
\* shares * price summed over the well-formed lines
WellFormedTotal(ls) ==
    IF ls = <<>> THEN 0
    ELSE (IF WellFormed(Head(ls))
          THEN NumeralValue(Split(Head(ls))[2]) * NumeralValue(Split(Head(ls))[3])
          ELSE 0) + WellFormedTotal(Tail(ls))

\* C10: no exception leaves calc_cost, whatever the lines, and the cost it
\* returns is the sum over the well-formed lines.
CalcCostNeverRaises ==
    /\ cexc = "none"
    /\ (cpc = "done" /\ portfolio.exists)
          => returned = WellFormedTotal(portfolio.lines)

====
